---- MODULE Spec2Model ----
(***************************************************************************)
(* Model of the chat classification pipeline of chatbot_project/chat:      *)
(* chat_api (views.py) with the Conversation and ClassificationResult      *)
(* tables (models.py) and the classification client get_llm_classification.*)
(* Every database statement of a request is one atomic step; several       *)
(* request handlers (workers) may run chat_api at the same time.           *)
(***************************************************************************)
EXTENDS Integers, Sequences, FiniteSets, TLC

\* ------------------------------------------------------------------ bounds
\* Request handlers that can run chat_api concurrently.
NumWorkers == 2
\* chat_api requests started over a whole run.
MaxCycles == 2
\* Database statements that fail (raise) over a whole run.
MaxFaults == 1
\* Session ids a caller sends on its own (1..NumSupplied); 0 is "no session_id".
NumSupplied == 1

Workers == 1..NumWorkers

\* ------------------------------------------------------------------ text
\* Texts are sequences of one-character strings, so that str.strip and
\* str.lower are computed and not assumed.
EmptyText == <<>>

Whitespace == {" ", "\t", "\n"}

LowerTable == [O |-> "o", K |-> "k", H |-> "h", I |-> "i"]

lower_char(c) == IF c \in DOMAIN LowerTable THEN LowerTable[c] ELSE c

lower(s) == [i \in 1..Len(s) |-> lower_char(s[i])]

RECURSIVE lstrip(_)
lstrip(s) == IF s # <<>> /\ Head(s) \in Whitespace THEN lstrip(Tail(s)) ELSE s

RECURSIVE rstrip(_)
rstrip(s) ==
    IF s # <<>> /\ s[Len(s)] \in Whitespace
    THEN rstrip(SubSeq(s, 1, Len(s) - 1))
    ELSE s

strip(s) == rstrip(lstrip(s))

\* ------------------------------------------------------------------ taxonomy
TOPIC_CHOICES == {"LAB", "TWIN_APPOINTMENT", "OTHERS"}

ESCALATION_STATUS_CHOICES == {"classified", "escalate", "no_response"}

\* PYTHON_ESCALATION_MESSAGES["generic_ack"]["status"]
GenericAckStatus == "no_response"

\* PYTHON_ESCALATION_MESSAGES["system_error"]
SystemErrorStatus == "escalate"

SystemErrorMessage == <<"s", "o", "r", "r", "y">>

\* The literal written to the audit record on the short-circuit path.
NO_RESPONSE_ACK ==
    <<"N", "O", "_", "R", "E", "S", "P", "O", "N", "S", "E", "_", "A", "C", "K">>

GENERIC_ACKS ==
    { <<"o", "k">>, <<"o", "k", "a", "y">>, <<"t", "h", "a", "n", "k", "s">> }

\* The acknowledgement test without str.lower.
is_generic_ack_case_sensitive(user_message) == user_message \in GENERIC_ACKS

is_generic_ack(user_message) == lower(user_message) \in GENERIC_ACKS

\* The first-message test as a test that the history is not empty.
is_first_message_nonempty(history) == Len(history) >= 1

is_first_message(history) == Len(history) = 1

\* ------------------------------------------------------------------ inputs
\* Message texts a caller sends.
Messages == { <<" ", "O", "k", " ">>, <<"h", "i">> }

NoRequest ==
    [method |-> "", body |-> "", has_message |-> FALSE,
     message |-> EmptyText, session_id |-> 0]

\* The requests a caller can send: a non-POST request, a POST whose body is
\* not JSON, a POST whose body is a JSON array, and POSTs of a JSON object
\* with or without "message" and "session_id".
Requests ==
    { [NoRequest EXCEPT !.method = "GET"],
      [NoRequest EXCEPT !.method = "POST", !.body = "invalid"],
      [NoRequest EXCEPT !.method = "POST", !.body = "array"] }
    \cup { [method |-> "POST", body |-> "object", has_message |-> TRUE,
            message |-> m, session_id |-> s] :
           m \in Messages, s \in 0..NumSupplied }
    \cup { [method |-> "POST", body |-> "object", has_message |-> FALSE,
            message |-> EmptyText, session_id |-> s] : s \in 0..NumSupplied }

\* ------------------------------------------------------------------ client
Providers == {"Gemini", "Other"}

NoOutput ==
    [kind |-> "none", topic |-> "", status |-> "",
     response_message |-> EmptyText, confidence |-> 0]

JsonOutput(t, s, r, c) ==
    [kind |-> "json", topic |-> t, status |-> s,
     response_message |-> r, confidence |-> c]

\* What one backend invocation can produce: an exception of the SDK
\* (transport, API, timeout), an empty text, a text that is not JSON, or a
\* JSON object (confidence in tenths).
BackendOutcomes ==
    { [NoOutput EXCEPT !.kind = "exception"],
      [NoOutput EXCEPT !.kind = "empty"],
      [NoOutput EXCEPT !.kind = "garbage"],
      JsonOutput("LAB", "classified", <<"r">>, 9),
      JsonOutput("OTHERS", "no_response", EmptyText, 5),
      JsonOutput("OTHERS", "no_response", <<"r">>, 10),
      JsonOutput("BILLING", "classified", <<"r">>, 9),
      JsonOutput("LAB", "pending", <<"r">>, 9),
      JsonOutput("LAB", "classified", <<"r">>, 15) }

\* ClassificationOutput.model_validate_json: closed sets and confidence range.
model_validate_json(raw) ==
    /\ raw.kind = "json"
    /\ raw.topic \in TOPIC_CHOICES
    /\ raw.status \in ESCALATION_STATUS_CHOICES
    /\ raw.confidence >= 0
    /\ raw.confidence <= 10

ClientAvailable(provider) == provider \in {"Gemini", "OpenAI"}

ClassificationOutput(t, s, r, c, j) ==
    [raised |-> FALSE, topic |-> t, status |-> s, response_message |-> r,
     confidence |-> c, justification |-> j]

NoResult == ClassificationOutput("", "", EmptyText, 0, "")

Raised == [NoResult EXCEPT !.raised = TRUE]

SystemErrorFallback(j) ==
    ClassificationOutput("OTHERS", SystemErrorStatus, SystemErrorMessage, 0, j)

\* get_llm_classification without its except Exception handler.
get_llm_classification_uncaught(provider, raw) ==
    IF ~ClientAvailable(provider) THEN SystemErrorFallback("parse/config")
    ELSE IF raw.kind = "exception" THEN Raised
    ELSE IF raw.kind = "empty" THEN SystemErrorFallback("parse/config")
    ELSE IF ~model_validate_json(raw) THEN SystemErrorFallback("parse/config")
    ELSE ClassificationOutput(raw.topic, raw.status, raw.response_message,
                              raw.confidence, "model")

\* get_llm_classification that takes the backend's JSON without validating it.
get_llm_classification_unvalidated(provider, raw) ==
    IF ~ClientAvailable(provider) THEN SystemErrorFallback("parse/config")
    ELSE IF raw.kind = "exception" THEN SystemErrorFallback("api/network")
    ELSE IF raw.kind \in {"empty", "garbage"}
    THEN SystemErrorFallback("parse/config")
    ELSE ClassificationOutput(raw.topic, raw.status, raw.response_message,
                              raw.confidence, "model")

\* get_llm_classification: the decision for one backend outcome.
get_llm_classification(provider, raw) ==
    IF ~ClientAvailable(provider) THEN SystemErrorFallback("parse/config")
    ELSE IF raw.kind = "exception" THEN SystemErrorFallback("api/network")
    ELSE IF raw.kind = "empty" THEN SystemErrorFallback("parse/config")
    ELSE IF ~model_validate_json(raw) THEN SystemErrorFallback("parse/config")
    ELSE ClassificationOutput(raw.topic, raw.status, raw.response_message,
                              raw.confidence, "model")

\* A lookup that leaves out the session_id filter: every row matches.
RowsWithAnySession(rows, session_id) == DOMAIN rows

\* ------------------------------------------------------------------ tables
\* Conversation.objects.get(session_id=...): the primary keys of the rows
\* with that session_id.
RowsWith(rows, session_id) ==
    { pk \in 1..Len(rows) : rows[pk].session_id = session_id }

\* A session_id column without unique=True.
NoUniqueConstraint(rows, session_id) == FALSE

\* The unique=True constraint on Conversation.session_id, as the INSERT sees it.
UniqueViolation(rows, session_id) == RowsWith(rows, session_id) # {}

\* A save that stores the newest turn in place of the history.
SaveRowNewestTurnOnly(rows, conversation) ==
    [rows EXCEPT ![conversation.pk].history =
        <<conversation.history[Len(conversation.history)]>>]

\* Conversation.save(): UPDATE of the whole row by primary key.
SaveRow(rows, conversation) ==
    [rows EXCEPT ![conversation.pk].history = conversation.history]

\* An audit INSERT that is issued twice.
CreateResultTwice(table, conversation, topic, escalation_status, response_message) ==
    LET row == [conversation |-> conversation.pk, topic |-> topic,
                escalation_status |-> escalation_status,
                response_message |-> response_message]
    IN Append(Append(table, row), row)

\* ClassificationResult.objects.create(...): INSERT of one audit row.
CreateResult(table, conversation, topic, escalation_status, response_message) ==
    Append(table, [conversation |-> conversation.pk, topic |-> topic,
                   escalation_status |-> escalation_status,
                   response_message |-> response_message])

Turn(role, content) == [role |-> role, content |-> content]

\* An assistant turn appended only for a non-empty response text.
AppendAssistantIfNonEmpty(history, response_text) ==
    IF response_text = <<>> THEN history
    ELSE Append(history, [role |-> "assistant", content |-> response_text])

\* conversation.history.append({'role': 'assistant', 'content': response_text})
AppendAssistant(history, response_text) ==
    Append(history, Turn("assistant", response_text))

\* JsonResponse(...): the status code and the keys of the JSON object.
NoResponse ==
    [status_code |-> 0, keys |-> {}, topic |-> "", status |-> "",
     session_id |-> 0, response |-> EmptyText, error |-> ""]

ErrorResponse(code, text) ==
    [NoResponse EXCEPT !.status_code = code, !.keys = {"error"}, !.error = text]

InternalError == ErrorResponse(500, "An internal server error occurred")

\* The response of the short-circuit path.
AckResponse(session_id) ==
    [NoResponse EXCEPT !.status_code = 200,
                       !.keys = {"topic", "status", "response"},
                       !.topic = "OTHERS", !.status = GenericAckStatus,
                       !.response = EmptyText]

\* The response of the classification path.
ResultResponse(session_id, topic_str, status_str, response_text) ==
    [NoResponse EXCEPT !.status_code = 200,
                       !.keys = {"topic", "status", "session_id", "response"},
                       !.topic = topic_str, !.status = status_str,
                       !.session_id = session_id, !.response = response_text]

\* ------------------------------------------------------------------ state
VARIABLES
    provider,         \* settings.LLM_PROVIDER, fixed at startup
    conversations,    \* the Conversation table: row pk -> [session_id, history]
    classifications,  \* the ClassificationResult table, in insertion order
    local,            \* per worker: position in chat_api and its local variables
    obs,              \* per worker: what the current cycle has done so far
    user_saves,       \* per Conversation row: user-turn saves that succeeded
    uuid_count,       \* uuid.uuid4() values drawn so far
    cycles,           \* requests started so far
    failed_cycles,    \* requests answered with an error so far
    faults            \* database statements that have failed so far

vars ==
    <<provider, conversations, classifications, local, obs, user_saves,
      uuid_count, cycles, failed_cycles, faults>>

NoConversation == [pk |-> 0, history |-> <<>>]

IdleLocal ==
    [pc |-> "idle", request |-> NoRequest, user_message |-> EmptyText,
     session_id |-> 0, conversation |-> NoConversation, retried |-> FALSE,
     llm_result |-> NoResult, response_data |-> NoResponse]

IdleObs ==
    [loaded_len |-> -1, short_circuited |-> FALSE, client_calls |-> 0,
     backend_calls |-> 0, raw |-> NoOutput, audit_ids |-> <<>>,
     assistant_appended |-> FALSE, user_saved |-> FALSE, db_failed |-> FALSE]

Init ==
    /\ provider \in Providers
    /\ conversations = <<>>
    /\ classifications = <<>>
    /\ local = [w \in Workers |-> IdleLocal]
    /\ obs = [w \in Workers |-> IdleObs]
    /\ user_saves = <<>>
    /\ uuid_count = 0
    /\ cycles = 0
    /\ failed_cycles = 0
    /\ faults = 0

\* Whether the next database statement fails.
FaultChoices == IF faults < MaxFaults THEN {FALSE, TRUE} ELSE {FALSE}

Bump(fail) == IF fail THEN faults + 1 ELSE faults

\* An except handler that answers a persistence error with the fallback decision.
AbortWithDecision(l) ==
    [l EXCEPT !.pc = "done",
              !.response_data =
                  ResultResponse(l.session_id, "OTHERS", SystemErrorStatus,
                                 SystemErrorMessage)]

\* The except Exception handler of chat_api.
Abort(l) == [l EXCEPT !.pc = "done", !.response_data = InternalError]

\* The count of requests answered with an error, after worker record l.
Tally(l) ==
    IF l.pc = "done" /\ l.response_data.status_code # 200
    THEN failed_cycles + 1
    ELSE failed_cycles

\* What the cycle has done so far, after a database statement of it failed.
Failed(o) == [o EXCEPT !.db_failed = TRUE]

\* ------------------------------------------------------------------ chat_api
\* chat_api up to the session id: the method check, json.loads, data.get and
\* the uuid drawn when the request carries no session_id.
Receive(w) ==
    /\ local[w].pc \in {"idle", "done"}
    /\ cycles < MaxCycles
    /\ \E r \in Requests :
         LET l == [IdleLocal EXCEPT !.request = r] IN
         /\ cycles' = cycles + 1
         /\ obs' = [obs EXCEPT ![w] = IdleObs]
         /\ IF r.method # "POST"
            THEN /\ local' = [local EXCEPT ![w] =
                       [l EXCEPT !.pc = "done",
                                 !.response_data =
                                     ErrorResponse(405, "Method not allowed")]]
                 /\ UNCHANGED uuid_count
            ELSE IF r.body = "invalid"
            THEN /\ local' = [local EXCEPT ![w] =
                       [l EXCEPT !.pc = "done",
                                 !.response_data =
                                     ErrorResponse(400, "Invalid JSON in request body")]]
                 /\ UNCHANGED uuid_count
            ELSE IF r.body = "array"
            THEN /\ local' = [local EXCEPT ![w] = Abort(l)]
                 /\ UNCHANGED uuid_count
            ELSE /\ local' = [local EXCEPT ![w] =
                       [l EXCEPT !.pc = "get",
                                 !.user_message = strip(r.message),
                                 !.session_id =
                                     IF r.session_id = 0
                                     THEN NumSupplied + uuid_count + 1
                                     ELSE r.session_id]]
                 /\ uuid_count' = IF r.session_id = 0 THEN uuid_count + 1
                                  ELSE uuid_count
    /\ failed_cycles' = Tally(local'[w])
    /\ UNCHANGED <<provider, conversations, classifications, user_saves, faults>>

\* get_or_create, the SELECT: the row of the session id if there is one, else
\* on to the INSERT; after an IntegrityError the miss is raised.
GetConversation(w) ==
    /\ local[w].pc = "get"
    /\ \E fail \in FaultChoices :
         LET l == local[w]
             found == RowsWith(conversations, l.session_id)
             pk == CHOOSE k \in found : \A j \in found : k <= j
         IN
         /\ faults' = Bump(fail)
         /\ IF fail
            THEN /\ local' = [local EXCEPT ![w] = Abort(l)]
                 /\ obs' = [obs EXCEPT ![w] = Failed(@)]
            ELSE IF found = {} /\ l.retried
            THEN /\ local' = [local EXCEPT ![w] = Abort(l)]
                 /\ UNCHANGED obs
            ELSE IF found = {}
            THEN /\ local' = [local EXCEPT ![w].pc = "create"]
                 /\ UNCHANGED obs
            ELSE /\ local' = [local EXCEPT ![w] =
                       [l EXCEPT !.pc = "save_user",
                                 !.conversation =
                                     [pk |-> pk,
                                      history |-> conversations[pk].history]]]
                 /\ obs' = [obs EXCEPT ![w].loaded_len =
                                Len(conversations[pk].history)]
    /\ failed_cycles' = Tally(local'[w])
    /\ UNCHANGED <<provider, conversations, classifications, user_saves,
                   uuid_count, cycles>>

\* get_or_create, the INSERT with defaults={'history': []}: refused by the
\* unique constraint when another request created the row in between, and
\* then the SELECT is repeated.
CreateConversation(w) ==
    /\ local[w].pc = "create"
    /\ \E fail \in FaultChoices :
         LET l == local[w]
             pk == Len(conversations) + 1
         IN
         /\ faults' = Bump(fail)
         /\ IF fail
            THEN /\ local' = [local EXCEPT ![w] = Abort(l)]
                 /\ obs' = [obs EXCEPT ![w] = Failed(@)]
                 /\ UNCHANGED <<conversations, user_saves>>
            ELSE IF UniqueViolation(conversations, l.session_id)
            THEN /\ local' = [local EXCEPT ![w] =
                       [l EXCEPT !.pc = "get", !.retried = TRUE]]
                 /\ UNCHANGED <<conversations, user_saves, obs>>
            ELSE /\ conversations' =
                       Append(conversations,
                              [session_id |-> l.session_id, history |-> <<>>])
                 /\ user_saves' = Append(user_saves, 0)
                 /\ local' = [local EXCEPT ![w] =
                       [l EXCEPT !.pc = "save_user",
                                 !.conversation =
                                     [pk |-> pk, history |-> <<>>]]]
                 /\ obs' = [obs EXCEPT ![w].loaded_len = 0]
    /\ failed_cycles' = Tally(local'[w])
    /\ UNCHANGED <<provider, classifications, uuid_count, cycles>>

\* The user turn appended in memory and left to the later save: the
\* acknowledgement check and the classification run before anything is stored.
SaveUserTurnDeferred(w) ==
    /\ local[w].pc = "save_user"
    /\ LET l == local[w]
           history == Append(l.conversation.history,
                             Turn("user", l.user_message))
           conversation == [l.conversation EXCEPT !.history = history]
           short == is_generic_ack(l.user_message) /\ is_first_message(history)
       IN
       /\ local' = [local EXCEPT ![w] =
             [l EXCEPT !.conversation = conversation,
                       !.pc = IF short THEN "ack" ELSE "classify"]]
       /\ obs' = [obs EXCEPT ![w].short_circuited = short]
    /\ UNCHANGED <<provider, conversations, classifications, user_saves,
                   uuid_count, cycles, failed_cycles, faults>>

\* The user turn is appended and saved; then the acknowledgement check picks
\* the short-circuit or the classification path.
SaveUserTurn(w) ==
    /\ local[w].pc = "save_user"
    /\ \E fail \in FaultChoices :
         LET l == local[w]
             history == Append(l.conversation.history,
                               Turn("user", l.user_message))
             conversation == [l.conversation EXCEPT !.history = history]
             short == is_generic_ack(l.user_message) /\ is_first_message(history)
         IN
         /\ faults' = Bump(fail)
         /\ IF fail
            THEN /\ local' = [local EXCEPT ![w] =
                       Abort([l EXCEPT !.conversation = conversation])]
                 /\ obs' = [obs EXCEPT ![w] = Failed(@)]
                 /\ UNCHANGED <<conversations, user_saves>>
            ELSE /\ conversations' = SaveRow(conversations, conversation)
                 /\ user_saves' =
                       [user_saves EXCEPT ![conversation.pk] = @ + 1]
                 /\ local' = [local EXCEPT ![w] =
                       [l EXCEPT !.conversation = conversation,
                                 !.pc = IF short THEN "ack" ELSE "classify"]]
                 /\ obs' = [obs EXCEPT ![w].user_saved = TRUE,
                                       ![w].short_circuited = short]
    /\ failed_cycles' = Tally(local'[w])
    /\ UNCHANGED <<provider, classifications, uuid_count, cycles>>

\* The short-circuit path: the audit record and the response.
AckShortCircuit(w) ==
    /\ local[w].pc = "ack"
    /\ \E fail \in FaultChoices :
         LET l == local[w] IN
         /\ faults' = Bump(fail)
         /\ IF fail
            THEN /\ local' = [local EXCEPT ![w] = Abort(l)]
                 /\ obs' = [obs EXCEPT ![w] = Failed(@)]
                 /\ UNCHANGED classifications
            ELSE /\ classifications' =
                       CreateResult(classifications, l.conversation, "OTHERS",
                                    GenericAckStatus, NO_RESPONSE_ACK)
                 /\ local' = [local EXCEPT ![w] =
                       [l EXCEPT !.pc = "done",
                                 !.response_data = AckResponse(l.session_id)]]
                 /\ obs' = [obs EXCEPT ![w].audit_ids =
                                @ \o [i \in 1..(Len(classifications')
                                                - Len(classifications)) |->
                                      Len(classifications) + i]]
    /\ failed_cycles' = Tally(local'[w])
    /\ UNCHANGED <<provider, conversations, user_saves, uuid_count, cycles>>

\* A call of get_llm_classification that is repeated once after a fallback.
ClassifyWithRetry(w) ==
    /\ local[w].pc = "classify"
    /\ \E raw \in BackendOutcomes :
         LET l == local[w]
             llm_result == get_llm_classification(provider, raw)
             again == llm_result.justification # "model"
                      /\ obs[w].client_calls = 0
         IN
         /\ local' = [local EXCEPT ![w] =
               IF again THEN l
               ELSE [l EXCEPT !.pc = "save_assistant",
                              !.llm_result = llm_result]]
         /\ obs' = [obs EXCEPT ![w].client_calls = @ + 1,
                               ![w].backend_calls =
                                   IF ClientAvailable(provider) THEN @ + 1 ELSE @,
                               ![w].raw = raw]
    /\ UNCHANGED <<provider, conversations, classifications, user_saves,
                   uuid_count, cycles, failed_cycles, faults>>

\* The call of get_llm_classification with whatever the backend produces.
Classify(w) ==
    /\ local[w].pc = "classify"
    /\ \E raw \in BackendOutcomes :
         LET l == local[w]
             llm_result == get_llm_classification(provider, raw)
         IN
         /\ local' = [local EXCEPT ![w] =
               IF llm_result.raised THEN Abort(l)
               ELSE [l EXCEPT !.pc = "save_assistant",
                              !.llm_result = llm_result]]
         /\ obs' = [obs EXCEPT ![w].client_calls = @ + 1,
                               ![w].backend_calls =
                                   IF ClientAvailable(provider) THEN @ + 1 ELSE @,
                               ![w].raw = raw]
    /\ failed_cycles' = Tally(local'[w])
    /\ UNCHANGED <<provider, conversations, classifications, user_saves,
                   uuid_count, cycles, faults>>

\* The assistant turn is appended and saved.
SaveAssistantTurn(w) ==
    /\ local[w].pc = "save_assistant"
    /\ \E fail \in FaultChoices :
         LET l == local[w]
             history == AppendAssistant(l.conversation.history,
                                        l.llm_result.response_message)
             conversation == [l.conversation EXCEPT !.history = history]
         IN
         /\ faults' = Bump(fail)
         /\ IF fail
            THEN /\ local' = [local EXCEPT ![w] =
                       Abort([l EXCEPT !.conversation = conversation])]
                 /\ obs' = [obs EXCEPT ![w] = Failed(@)]
                 /\ UNCHANGED conversations
            ELSE /\ conversations' = SaveRow(conversations, conversation)
                 /\ local' = [local EXCEPT ![w] =
                       [l EXCEPT !.conversation = conversation,
                                 !.pc = "log_result"]]
                 /\ obs' = [obs EXCEPT ![w].assistant_appended =
                                Len(history) > Len(l.conversation.history)]
    /\ failed_cycles' = Tally(local'[w])
    /\ UNCHANGED <<provider, classifications, user_saves, uuid_count, cycles>>

\* The classification path: the audit record and the response.
LogResult(w) ==
    /\ local[w].pc = "log_result"
    /\ \E fail \in FaultChoices :
         LET l == local[w]
             r == l.llm_result
         IN
         /\ faults' = Bump(fail)
         /\ IF fail
            THEN /\ local' = [local EXCEPT ![w] = Abort(l)]
                 /\ obs' = [obs EXCEPT ![w] = Failed(@)]
                 /\ UNCHANGED classifications
            ELSE /\ classifications' =
                       CreateResult(classifications, l.conversation, r.topic,
                                    r.status, r.response_message)
                 /\ local' = [local EXCEPT ![w] =
                       [l EXCEPT !.pc = "done",
                                 !.response_data =
                                     ResultResponse(l.session_id, r.topic,
                                                    r.status, r.response_message)]]
                 /\ obs' = [obs EXCEPT ![w].audit_ids =
                                @ \o [i \in 1..(Len(classifications')
                                                - Len(classifications)) |->
                                      Len(classifications) + i]]
    /\ failed_cycles' = Tally(local'[w])
    /\ UNCHANGED <<provider, conversations, user_saves, uuid_count, cycles>>

Next ==
    \E w \in Workers :
        \/ Receive(w)
        \/ GetConversation(w)
        \/ CreateConversation(w)
        \/ SaveUserTurn(w)
        \/ AckShortCircuit(w)
        \/ Classify(w)
        \/ SaveAssistantTurn(w)
        \/ LogResult(w)

Spec == Init /\ [][Next]_vars

\* Cycles that do not overlap: a worker moves only while every other worker
\* is between requests.
Quiet(w) == \A v \in Workers \ {w} : local[v].pc \in {"idle", "done"}

NextSeq ==
    \E w \in Workers :
        \/ Quiet(w) /\ Receive(w)
        \/ Quiet(w) /\ GetConversation(w)
        \/ Quiet(w) /\ CreateConversation(w)
        \/ Quiet(w) /\ SaveUserTurn(w)
        \/ Quiet(w) /\ AckShortCircuit(w)
        \/ Quiet(w) /\ Classify(w)
        \/ Quiet(w) /\ SaveAssistantTurn(w)
        \/ Quiet(w) /\ LogResult(w)

SpecSeq == Init /\ [][NextSeq]_vars

\* ------------------------------------------------------------------ properties
Rows == 1..Len(conversations)

\* The user turns of a history.
UserTurns(history) ==
    Cardinality({ i \in 1..Len(history) : history[i].role = "user" })

\* The audit records that reference Conversation row pk.
AuditCount(pk) ==
    Cardinality({ i \in 1..Len(classifications) :
                    classifications[i].conversation = pk })

\* No request is being processed.
Quiescent == \A w \in Workers : local[w].pc \in {"idle", "done"}

\* The cycle of worker w has ended with a success response.
Succeeded(w) ==
    local[w].pc = "done" /\ local[w].response_data.status_code = 200

\* The cycle of worker w has ended and no database statement of it failed.
Completed(w) == local[w].pc = "done" /\ ~obs[w].db_failed

\* The message of worker w's request is a generic acknowledgement once
\* trimmed and lower-cased.
AckRequest(w) ==
    /\ local[w].request.has_message
    /\ lower(strip(local[w].request.message)) \in GENERIC_ACKS

\* The classification client was called in worker w's cycle and could not
\* produce a decision: no usable provider, an exception, an empty text, a
\* text that is not JSON, or a JSON object outside the schema.
ClientFailed(w) ==
    /\ obs[w].client_calls > 0
    /\ \/ provider \notin {"Gemini", "OpenAI"}
       \/ obs[w].raw.kind # "json"
       \/ obs[w].raw.topic \notin {"LAB", "TWIN_APPOINTMENT", "OTHERS"}
       \/ obs[w].raw.status \notin {"classified", "escalate", "no_response"}
       \/ obs[w].raw.confidence < 0
       \/ obs[w].raw.confidence > 10

\* C1: after non-overlapping cycles that all succeeded, every session has as
\* many audit records as its stored history has user turns.
C1_AuditsEqualUserTurns ==
    (Quiescent /\ failed_cycles = 0) =>
        \A pk \in Rows :
            AuditCount(pk) = UserTurns(conversations[pk].history)

C1_Witness ==
    /\ Quiescent
    /\ failed_cycles = 0
    /\ \E pk \in Rows :
         /\ UserTurns(conversations[pk].history) = 2
         /\ AuditCount(pk) = 2
         /\ \E i, j \in 1..Len(classifications) :
              /\ classifications[i].conversation = pk
              /\ classifications[j].conversation = pk
              /\ classifications[i].escalation_status = "no_response"
              /\ classifications[j].escalation_status = "escalate"

\* C2: a cycle whose classification client failed still ends, unless a
\* database statement failed, with a success response carrying topic OTHERS
\* and status escalate, and has written exactly one audit record.
C2_FallbackOnClientFailure ==
    \A w \in Workers :
        ClientFailed(w) =>
            /\ Completed(w) => Succeeded(w)
            /\ Succeeded(w) =>
                 /\ local[w].response_data.topic = "OTHERS"
                 /\ local[w].response_data.status = "escalate"
                 /\ Len(obs[w].audit_ids) = 1
                 /\ classifications[obs[w].audit_ids[1]].conversation =
                        local[w].conversation.pk

C2_Witness ==
    \E w \in Workers :
        /\ ClientFailed(w)
        /\ obs[w].raw.kind = "exception"
        /\ provider = "Gemini"
        /\ Succeeded(w)

\* C3: a cycle that loaded an empty history and whose message is a generic
\* acknowledgement never calls the classification client and, when it
\* answers, answers topic OTHERS, status no_response and an empty response.
C3_ShortCircuitOnFirstAck ==
    \A w \in Workers :
        (obs[w].loaded_len = 0 /\ AckRequest(w)) =>
            /\ obs[w].client_calls = 0
            /\ local[w].pc \notin {"classify", "save_assistant", "log_result"}
            /\ Completed(w) => Succeeded(w)
            /\ Succeeded(w) =>
                 /\ local[w].response_data.topic = "OTHERS"
                 /\ local[w].response_data.status = "no_response"
                 /\ local[w].response_data.response = EmptyText
                 /\ {"topic", "status", "response"} \subseteq
                        local[w].response_data.keys

C3_Witness ==
    \E w \in Workers :
        /\ obs[w].loaded_len = 0
        /\ AckRequest(w)
        /\ local[w].request.message # local[w].user_message
        /\ Succeeded(w)

\* C4: a cycle that loaded a history of at least one turn never takes the
\* short-circuit, also for a generic acknowledgement: once its user turn is
\* saved it calls the classification client.
C4_NoShortCircuitAfterFirstTurn ==
    \A w \in Workers :
        (obs[w].loaded_len >= 1 /\ AckRequest(w)) =>
            /\ ~obs[w].short_circuited
            /\ local[w].pc # "ack"
            /\ obs[w].user_saved =>
                 (local[w].pc = "classify" \/ obs[w].client_calls = 1)
            /\ Succeeded(w) => obs[w].client_calls = 1

C4_Witness ==
    \E w \in Workers :
        /\ obs[w].loaded_len = 1
        /\ AckRequest(w)
        /\ Succeeded(w)
        /\ obs[w].client_calls = 1
        /\ \E i \in 1..Len(classifications) :
             /\ classifications[i].conversation = local[w].conversation.pk
             /\ classifications[i].response_message = NO_RESPONSE_ACK

\* C5: cycles on one session are serialized: once all cycles have finished
\* with success, the stored history of every session holds every user turn
\* that was saved to it, and no more audit records than user turns.
C5_SerializedCycles ==
    (Quiescent /\ failed_cycles = 0) =>
        \A pk \in Rows :
            /\ UserTurns(conversations[pk].history) = user_saves[pk]
            /\ AuditCount(pk) <= UserTurns(conversations[pk].history)

\* C6: in every reachable state a session has no more audit records than
\* its stored history has user turns.
C6_AuditsNeverExceedUserTurns ==
    \A pk \in Rows : AuditCount(pk) <= UserTurns(conversations[pk].history)

\* C7: no two Conversation rows carry the same session_id, and every cycle
\* works on the row of its own session_id.
C7_OneRowPerSessionId ==
    /\ \A p, q \in Rows :
         conversations[p].session_id = conversations[q].session_id => p = q
    /\ \A w \in Workers :
         local[w].conversation.pk # 0 =>
             conversations[local[w].conversation.pk].session_id =
                 local[w].session_id

C7_Witness ==
    \E w, v \in Workers :
        /\ w # v
        /\ local[w].retried
        /\ local[w].session_id = local[v].session_id
        /\ local[w].conversation.pk # 0
        /\ local[w].conversation.pk = local[v].conversation.pk
        /\ local[w].request.session_id # 0

\* C8: the audit record of a cycle that succeeded carries the topic, status
\* and response_message of the response returned to the caller.
C8_AuditMatchesResponse ==
    \A w \in Workers :
        Succeeded(w) =>
            /\ Len(obs[w].audit_ids) = 1
            /\ LET a == classifications[obs[w].audit_ids[1]]
                   r == local[w].response_data
               IN /\ a.topic = r.topic
                  /\ a.escalation_status = r.status
                  /\ a.response_message = r.response

C10_ResponseCarriesSessionId ==
    \A w \in Workers :
        Succeeded(w) =>
            /\ {"session_id", "topic", "status", "response"} \subseteq
                   local[w].response_data.keys
            /\ local[w].response_data.session_id = local[w].session_id
            /\ conversations[local[w].conversation.pk].session_id =
                   local[w].response_data.session_id

\* The request of worker w is malformed or lacks the message field.
BadRequest(w) ==
    /\ local[w].pc # "idle"
    /\ \/ local[w].request.method # "POST"
       \/ local[w].request.body # "object"
       \/ ~local[w].request.has_message

\* C11: a request that is not a POST, whose body is not a JSON object or
\* that has no message field is answered with an error at once and touches
\* no session: no Conversation is loaded or created, no turn is saved and no
\* audit record is written.
C11_BadRequestRejected ==
    \A w \in Workers :
        BadRequest(w) =>
            /\ local[w].pc = "done"
            /\ local[w].response_data.status_code # 200
            /\ local[w].conversation.pk = 0
            /\ ~obs[w].user_saved
            /\ obs[w].audit_ids = <<>>

\* C12: a cycle answered with the internal error after its user turn was
\* saved has left neither an assistant turn nor an audit record.
C12_AbortCommitsNothing ==
    \A w \in Workers :
        (local[w].pc = "done" /\ local[w].response_data.status_code = 500
         /\ obs[w].user_saved) =>
            /\ ~obs[w].assistant_appended
            /\ obs[w].audit_ids = <<>>

\* C13: a cycle whose get_or_create or first save failed is answered with
\* the internal error, which carries no topic, status or response; it has
\* not called the classification client and has written no audit record.
C13_UserTurnFailureAborts ==
    \A w \in Workers :
        (obs[w].db_failed /\ ~obs[w].user_saved) =>
            /\ local[w].pc = "done"
            /\ local[w].response_data.status_code = 500
            /\ local[w].response_data.keys = {"error"}
            /\ obs[w].client_calls = 0
            /\ obs[w].audit_ids = <<>>

C13_Witness ==
    \E w \in Workers :
        /\ obs[w].db_failed
        /\ ~obs[w].user_saved
        /\ local[w].conversation.pk # 0
        /\ Len(local[w].conversation.history) = 1
        /\ conversations[local[w].conversation.pk].history = <<>>
        /\ local[w].pc = "done"

\* The backend answered worker w's call with a JSON object whose topic,
\* status or confidence lies outside the schema.
SchemaInvalid(w) ==
    /\ obs[w].client_calls > 0
    /\ provider \in {"Gemini", "OpenAI"}
    /\ obs[w].raw.kind = "json"
    /\ \/ obs[w].raw.topic \notin {"LAB", "TWIN_APPOINTMENT", "OTHERS"}
       \/ obs[w].raw.status \notin {"classified", "escalate", "no_response"}
       \/ obs[w].raw.confidence < 0
       \/ obs[w].raw.confidence > 10

\* C14: a backend output outside the schema is replaced by the system_error
\* fallback; every success response and every audit record has its topic in
\* {LAB, TWIN_APPOINTMENT, OTHERS} and its status in {classified, escalate,
\* no_response}.
C14_InvalidOutputNeverPropagates ==
    /\ \A i \in 1..Len(classifications) :
         /\ classifications[i].topic \in {"LAB", "TWIN_APPOINTMENT", "OTHERS"}
         /\ classifications[i].escalation_status \in
                {"classified", "escalate", "no_response"}
    /\ \A w \in Workers :
         /\ Succeeded(w) =>
              /\ local[w].response_data.topic \in
                     {"LAB", "TWIN_APPOINTMENT", "OTHERS"}
              /\ local[w].response_data.status \in
                     {"classified", "escalate", "no_response"}
         /\ (SchemaInvalid(w) /\ local[w].pc # "done") =>
              /\ local[w].llm_result.topic = "OTHERS"
              /\ local[w].llm_result.status = "escalate"
              /\ local[w].llm_result.confidence = 0
              /\ local[w].llm_result.response_message = SystemErrorMessage

C14_Witness ==
    \E w \in Workers :
        /\ SchemaInvalid(w)
        /\ obs[w].raw.confidence > 10
        /\ Succeeded(w)
        /\ local[w].response_data.status = "escalate"
        /\ classifications[obs[w].audit_ids[1]].topic = "OTHERS"

\* C15: in every success response and every audit record, status
\* no_response comes with an empty response_message.
C15_NoResponseMeansEmptyMessage ==
    /\ \A i \in 1..Len(classifications) :
         classifications[i].escalation_status = "no_response" =>
             classifications[i].response_message = EmptyText
    /\ \A w \in Workers :
         (Succeeded(w) /\ local[w].response_data.status = "no_response") =>
             local[w].response_data.response = EmptyText

\* A request handler runs its request to the end: every database statement
\* of a started cycle is eventually executed.  Nothing makes the backend
\* answer, and chat_api sets no timeout on the call, so Classify is not fair.
HandlerFairness ==
    \A w \in Workers :
        /\ WF_vars(GetConversation(w))
        /\ WF_vars(CreateConversation(w))
        /\ WF_vars(SaveUserTurn(w))
        /\ WF_vars(AckShortCircuit(w))
        /\ WF_vars(SaveAssistantTurn(w))
        /\ WF_vars(LogResult(w))

SpecLive == Init /\ [][Next]_vars /\ HandlerFairness

\* C16: every cycle that has started is eventually answered, whether or not
\* the backend answers.
C16_EveryCycleTerminates ==
    \A w \in Workers :
        (local[w].pc \notin {"idle", "done"}) ~> (local[w].pc = "done")

C18_EffectsInOrder ==
    \A w \in Workers :
        /\ (local[w].pc \in {"ack", "classify", "save_assistant", "log_result"}
            \/ obs[w].short_circuited \/ obs[w].client_calls > 0) =>
               /\ obs[w].user_saved
               /\ user_saves[local[w].conversation.pk] >= 1
        /\ obs[w].assistant_appended =>
               /\ obs[w].client_calls = 1
               /\ local[w].llm_result # NoResult
        /\ obs[w].audit_ids # <<>> =>
               /\ Succeeded(w)
               /\ obs[w].short_circuited \/ obs[w].assistant_appended
        /\ Succeeded(w) => Len(obs[w].audit_ids) = 1

C18_Witness ==
    \E w \in Workers :
        /\ Succeeded(w)
        /\ obs[w].user_saved
        /\ obs[w].client_calls = 1
        /\ obs[w].assistant_appended
        /\ Len(obs[w].audit_ids) = 1

\* s is an initial part of t.
IsPrefix(s, t) == Len(s) <= Len(t) /\ SubSeq(t, 1, Len(s)) = s

\* C19: under non-overlapping cycles every step leaves the stored history of
\* every session as it was or extends it by one turn at its end, a user turn
\* or an assistant turn that follows a user turn; and a cycle reads back the
\* history exactly as stored.
C19_HistoryAppendOnly ==
    [][ /\ \A pk \in Rows :
             LET h == conversations[pk].history
                 g == conversations'[pk].history
             IN /\ IsPrefix(h, g)
                /\ Len(g) <= Len(h) + 1
                /\ Len(g) = Len(h) + 1 =>
                     \/ g[Len(g)].role = "user"
                     \/ /\ g[Len(g)].role = "assistant"
                        /\ h # <<>>
                        /\ h[Len(h)].role = "user"
        /\ \A w \in Workers :
             (local[w].pc \in {"get", "create"} /\ local'[w].pc = "save_user") =>
                 local'[w].conversation.history =
                     conversations'[local'[w].conversation.pk].history
      ]_vars

C19_Witness ==
    /\ Quiescent
    /\ \E pk \in Rows :
         LET h == conversations[pk].history IN
         /\ Len(h) = 4
         /\ h[1].role = "user" /\ h[2].role = "assistant"
         /\ h[3].role = "user" /\ h[4].role = "assistant"
         /\ h[1].content # h[3].content

\* C20: no session has more than one short-circuited cycle.
C20_AtMostOneShortCircuit ==
    \A pk \in Rows :
        Cardinality({ i \in 1..Len(classifications) :
                        /\ classifications[i].conversation = pk
                        /\ classifications[i].response_message =
                               NO_RESPONSE_ACK }) <= 1

\* The audit records that reference Conversation row pk, in insertion order.
AuditsOf(table, pk) == SelectSeq(table, LAMBDA r : r.conversation = pk)

\* What the step of a cycle for session id a leaves alone: every stored row
\* of another session, with its history and its audit records, and no row of
\* another session appears.
OtherSessionsUntouched(a) ==
    /\ Len(conversations') >= Len(conversations)
    /\ \A pk \in 1..Len(conversations') :
         conversations'[pk].session_id # a =>
             /\ pk <= Len(conversations)
             /\ conversations'[pk] = conversations[pk]
             /\ AuditsOf(classifications', pk) = AuditsOf(classifications, pk)

\* C21: sessions are independent. In every interleaving, a step of a
\* turn-processing cycle for session A, whatever the cycle's outcome, leaves
\* the stored history and the audit records of every other session B
\* unchanged and creates no row for another session; a step of no cycle
\* changes no table.
C21_SessionsIndependent ==
    [][ /\ \A w \in Workers :
             local'[w] # local[w] =>
                 OtherSessionsUntouched(local'[w].session_id)
        /\ (local' = local) =>
               /\ conversations' = conversations
               /\ classifications' = classifications ]_vars

\* Two cycles on distinct sessions are in flight together, each past its
\* assistant-turn save, and each session's stored history is the one its own
\* cycle wrote.
C21_Witness ==
    \E w1, w2 \in Workers :
        /\ w1 # w2
        /\ local[w1].pc = "log_result"
        /\ local[w2].pc = "log_result"
        /\ local[w1].session_id # local[w2].session_id
        /\ local[w1].conversation.pk # local[w2].conversation.pk
        /\ \A w \in {w1, w2} :
             /\ conversations[local[w].conversation.pk].session_id =
                    local[w].session_id
             /\ conversations[local[w].conversation.pk].history =
                    local[w].conversation.history
             /\ Len(local[w].conversation.history) = 2

====
